---- MODULE Spec2Model ----
(***************************************************************************)
(* Model of dune_client.api.query.QueryAPI (the query CRUD client) running *)
(* against the Dune query service, and of the execution life cycle that    *)
(* the end-to-end tests exercise.                                          *)
(*                                                                         *)
(* Every client method is one action: the whole call, both HTTP round      *)
(* trips included.  The requests a call sends and the responses it gets    *)
(* are logged in last.requests, in the order they are sent.                *)
(*                                                                         *)
(* Python's Optional[T] is modelled as a sequence of length at most one:   *)
(* None is << >> and a value v is << v >>.  A JSON object (a dict) is a    *)
(* record; a key is missing when it is not in the record's DOMAIN.         *)
(***************************************************************************)
EXTENDS Integers, Sequences, FiniteSets, TLC

\* ------------------------------------------------------------------ bounds
\* Largest query id the service hands out (ids are assigned 1, 2, ...).
MaxQueryId == 2
\* Number of executions that can be submitted.
MaxExecutions == 3

VARIABLES
    queries,     \* the service's stored queries: queries[id], id = 1..Len
    last,        \* the last QueryAPI call: its arguments, requests and outcome
    executions,  \* the service's executions: executions[id] is a state
    cancelled,   \* execution ids whose cancel_execution reported success
    fetch        \* the last execution call: operation, id and reported state

vars == <<queries, last, executions, cancelled, fetch>>

\* ------------------------------------------------------------ Optional[T]
None == << >>
Some(v) == << v >>
IsNone(o) == o = << >>
Get(o) == o[1]

\* --------------------------------------------------------------- outcomes
\* How a call ends: it returns, or raises an exception of some kind.
NoBody == [none |-> TRUE]

Return(v) == [kind |-> "return", value |-> Some(v), body |-> NoBody, type |-> ""]

ReturnNone == [kind |-> "return", value |-> None, body |-> NoBody, type |-> ""]

\* DuneError(data, response_class, err)
DuneError(data, response_class) ==
    [kind |-> "DuneError", value |-> None, body |-> data, type |-> response_class]

Raise(exc) == [kind |-> exc, value |-> None, body |-> NoBody, type |-> ""]

\* ------------------------------------------------------------- parameters
\* A QueryParameter and its wire form (QueryParameter.to_dict).
P1 == [name |-> "TextField", ptype |-> "text", value |-> "Plain Text"]

to_dict(p) == [key |-> p.name, type |-> p.ptype, value |-> p.value]

to_dicts(ps) == [i \in 1..Len(ps) |-> to_dict(ps[i])]

\* ---------------------------------------------------------------- service
\* The query service behind the HTTP routes.  A request the service cannot
\* serve (invalid API key, unknown id, internal error) is answered with an
\* error payload and changes nothing.
ErrorPayload == [error |-> "invalid API Key"]

Found(qs, id) == id \in 1..Len(qs)

\* POST /query/ : body {name, query_sql, is_private, parameters?} -> {query_id}
ServeCreate(qs, body, ok) ==
    IF ~ok
    THEN [queries |-> qs, response |-> ErrorPayload]
    ELSE [queries |-> Append(qs,
                [name        |-> body.name,
                 query_sql   |-> body.query_sql,
                 parameters  |-> IF "parameters" \in DOMAIN body
                                 THEN body.parameters ELSE << >>,
                 description |-> "",
                 tags        |-> << >>,
                 is_private  |-> body.is_private,
                 is_archived |-> FALSE]),
          response |-> [query_id |-> Len(qs) + 1]]

\* GET /query/{id} : the full query object
ServeRead(qs, id, ok) ==
    IF ~ok \/ ~Found(qs, id)
    THEN ErrorPayload
    ELSE [query_id    |-> id,
          name        |-> qs[id].name,
          query_sql   |-> qs[id].query_sql,
          parameters  |-> qs[id].parameters,
          description |-> qs[id].description,
          tags        |-> qs[id].tags,
          is_private  |-> qs[id].is_private,
          is_archived |-> qs[id].is_archived]

\* PATCH /query/{id} : body holds only the changed fields -> {query_id}
ServeUpdate(qs, id, body, ok) ==
    IF ~ok \/ ~Found(qs, id)
    THEN [queries |-> qs, response |-> ErrorPayload]
    ELSE [queries |-> [qs EXCEPT ![id] =
                [f \in DOMAIN qs[id] |->
                    IF f \in DOMAIN body THEN body[f] ELSE qs[id][f]]],
          response |-> [query_id |-> id]]

\* POST /query/{id}/archive, /unarchive, /private, /unprivate -> {query_id}
ServeAction(qs, id, action, ok) ==
    IF ~ok \/ ~Found(qs, id)
    THEN [queries |-> qs, response |-> ErrorPayload]
    ELSE [queries |->
            CASE action = "archive"   -> [qs EXCEPT ![id].is_archived = TRUE]
              [] action = "unarchive" -> [qs EXCEPT ![id].is_archived = FALSE]
              [] action = "private"   -> [qs EXCEPT ![id].is_private = TRUE]
              [] action = "unprivate" -> [qs EXCEPT ![id].is_private = FALSE],
          response |-> [query_id |-> id]]

\* Another user of the service changes the flag back between two requests.
OtherUser(qs, id, action, interfere) ==
    IF ~interfere \/ ~Found(qs, id)
    THEN qs
    ELSE CASE action = "archive"   -> [qs EXCEPT ![id].is_archived = FALSE]
           [] action = "unarchive" -> [qs EXCEPT ![id].is_archived = TRUE]
           [] action = "private"   -> [qs EXCEPT ![id].is_private = FALSE]
           [] action = "unprivate" -> [qs EXCEPT ![id].is_private = TRUE]

\* -------------------------------------------------------------- transport
\* One logged HTTP round trip.
Request(method, route, id, body, response) ==
    [method |-> method, route |-> route, id |-> id,
     body |-> body, response |-> response]


\* ----------------------------------------------------------- query object
\* The keys DuneQuery.from_dict reads from a GET /query/{id} response.
QueryKeys ==
    {"query_id", "name", "query_sql", "parameters",
     "description", "tags", "is_private", "is_archived"}

\* QueryParameter.from_dict: the parameter a wire form stands for.
param_from_dict(d) == [name |-> d.key, ptype |-> d.type, value |-> d.value]

\* DuneQuery.from_dict: the query object of a response, DuneError when the
\* response is malformed (an expected key is missing).
from_dict(data) ==
    IF QueryKeys \subseteq DOMAIN data
    THEN Return([base |-> [query_id |-> data.query_id,
                           name     |-> data.name,
                           params   |-> [i \in 1..Len(data.parameters) |->
                                            param_from_dict(data.parameters[i])]],
                 meta |-> [description |-> data.description,
                           tags        |-> data.tags,
                           is_private  |-> data.is_private,
                           is_archived |-> data.is_archived],
                 sql  |-> data.query_sql])
    ELSE DuneError(data, "DuneQuery")

\* ----------------------------------------------------------------- client
\* Each method maps the service's state qs and the call's arguments to
\*   queries  : the service's state after the call,
\*   requests : the HTTP round trips of the call, in order,
\*   out      : how the call ends.
\* post_ok / get_ok tell whether the service serves that request.

\* except KeyError as err: raise DuneError(response_json, <class>, err)
CatchKeyError(out, response_json, response_class) ==
    IF out.kind = "KeyError"
    THEN DuneError(response_json, response_class)
    ELSE out

\* get_query that hands back the response as it came, unparsed.
get_query_raw(qs, query_id, get_ok) ==
    LET response_json == ServeRead(qs, query_id, get_ok)
    IN  [queries  |-> qs,
         requests |-> << Request("GET", "/query/{id}", query_id,
                                 NoBody, response_json) >>,
         out      |-> Return(response_json)]

\* def get_query(self, query_id)
get_query(qs, query_id, get_ok) ==
    LET response_json == ServeRead(qs, query_id, get_ok)
    IN  [queries  |-> qs,
         requests |-> << Request("GET", "/query/{id}", query_id,
                                 NoBody, response_json) >>,
         out      |-> from_dict(response_json)]

\* create_query that builds the query from the creation response instead of
\* reading it back.
create_query_no_read(qs, name, query_sql, params, is_private, post_ok, get_ok) ==
    LET payload ==
            IF IsNone(params)
            THEN [name |-> name, query_sql |-> query_sql,
                  is_private |-> is_private]
            ELSE [name |-> name, query_sql |-> query_sql,
                  is_private |-> is_private,
                  parameters |-> to_dicts(Get(params))]
        posted == ServeCreate(qs, payload, post_ok)
        response_json == posted.response
    IN  [queries  |-> posted.queries,
         requests |-> << Request("POST", "/query/", 0, payload, response_json) >>,
         out      |-> IF "query_id" \notin DOMAIN response_json
                      THEN DuneError(response_json, "CreateQueryResponse")
                      ELSE from_dict(response_json)]

\* def create_query(self, name, query_sql, params=None, is_private=False)
create_query(qs, name, query_sql, params, is_private, post_ok, get_ok) ==
    LET payload ==
            IF IsNone(params)
            THEN [name |-> name, query_sql |-> query_sql,
                  is_private |-> is_private]
            ELSE [name |-> name, query_sql |-> query_sql,
                  is_private |-> is_private,
                  parameters |-> to_dicts(Get(params))]
        posted == ServeCreate(qs, payload, post_ok)
        response_json == posted.response
        post == Request("POST", "/query/", 0, payload, response_json)
    IN  IF "query_id" \notin DOMAIN response_json
        THEN [queries  |-> posted.queries,
              requests |-> << post >>,
              out      |-> DuneError(response_json, "CreateQueryResponse")]
        ELSE LET read == get_query(posted.queries, response_json.query_id, get_ok)
             IN  [queries  |-> read.queries,
                  requests |-> << post >> \o read.requests,
                  out      |-> CatchKeyError(read.out, response_json,
                                             "CreateQueryResponse")]

\* class UpdateQueryParams(NamedTuple): its field names
UpdateQueryParamsFields == {"name", "query_sql", "params", "description", "tags"}

\* UpdateQueryParams(): every field defaults to None
UpdateQueryParams == [f \in UpdateQueryParamsFields |-> None]

\* def update_query(self, query_id, params=None)
update_query(qs, query_id, params, patch_ok) ==
    LET p == IF IsNone(params) THEN UpdateQueryParams ELSE Get(params)
        unchanged(out) == [queries |-> qs, requests |-> << >>, out |-> out]
    IN  IF "query_parms" \notin DOMAIN p
        THEN \* `if params.query_parms is not None`: the tuple has no such
             \* attribute.  The statements before it only fill the local
             \* dict, so the lookup is tested first here.
             unchanged(Raise("AttributeError"))
        ELSE
        LET keys == {k \in {"name", "description", "tags", "query_sql"} :
                        ~IsNone(p[k])}
                    \cup (IF IsNone(p.query_parms) THEN {} ELSE {"parameters"})
            parameters == [k \in keys |->
                              IF k = "parameters"
                              THEN to_dicts(Get(p.query_parms))
                              ELSE Get(p[k])]
        IN  IF keys = {}
            THEN unchanged(Return(query_id))
            ELSE LET patched == ServeUpdate(qs, query_id, parameters, patch_ok)
                     response_json == patched.response
                 IN  [queries  |-> patched.queries,
                      requests |-> << Request("PATCH", "/query/{id}", query_id,
                                              parameters, response_json) >>,
                      out      |-> IF "query_id" \in DOMAIN response_json
                                   THEN Return(response_json.query_id)
                                   ELSE DuneError(response_json,
                                                  "UpdateQueryResponse")]

\* self._post(route=f"/query/{query_id}/<action>"): the round trip, and the
\* service's state when the next request of the call arrives (the service is
\* shared with its other users, who may act in between: interfere).
post_action(qs, query_id, action, post_ok, interfere) ==
    LET posted == ServeAction(qs, query_id, action, post_ok)
    IN  [queries       |-> OtherUser(posted.queries, query_id, action, interfere),
         response_json |-> posted.response,
         request       |-> Request("POST", "/query/{id}/" \o action, query_id,
                                   NoBody, posted.response)]

\* archive_query that reads the query before it posts the action.
archive_query_stale(qs, query_id, post_ok, get_ok, interfere) ==
    LET read == get_query(qs, query_id, get_ok)
        posted == post_action(qs, query_id, "archive", post_ok, interfere)
        response_json == posted.response_json
    IN  [queries  |-> posted.queries,
         requests |-> read.requests \o << posted.request >>,
         out      |-> IF "query_id" \notin DOMAIN response_json
                      THEN DuneError(response_json, "ArchiveQueryResponse")
                      ELSE IF read.out.kind = "return"
                      THEN Return(Get(read.out.value).meta.is_archived)
                      ELSE read.out]

\* def archive_query(self, query_id)
archive_query(qs, query_id, post_ok, get_ok, interfere) ==
    LET posted == post_action(qs, query_id, "archive", post_ok, interfere)
        response_json == posted.response_json
    IN  IF "query_id" \notin DOMAIN response_json
        THEN [queries  |-> posted.queries,
              requests |-> << posted.request >>,
              out      |-> DuneError(response_json, "ArchiveQueryResponse")]
        ELSE LET read == get_query(posted.queries, response_json.query_id, get_ok)
             IN  [queries  |-> read.queries,
                  requests |-> << posted.request >> \o read.requests,
                  out      |-> IF read.out.kind = "return"
                               THEN Return(Get(read.out.value).meta.is_archived)
                               ELSE CatchKeyError(read.out, response_json,
                                                  "ArchiveQueryResponse")]

\* unarchive_query that also reads the query before it posts the action.
unarchive_query_double_read(qs, query_id, post_ok, get_ok, interfere) ==
    LET before == get_query(qs, query_id, get_ok)
        posted == post_action(qs, query_id, "unarchive", post_ok, interfere)
        response_json == posted.response_json
    IN  IF "query_id" \notin DOMAIN response_json
        THEN [queries  |-> posted.queries,
              requests |-> before.requests \o << posted.request >>,
              out      |-> DuneError(response_json, "UnarchiveQueryResponse")]
        ELSE LET read == get_query(posted.queries, response_json.query_id, get_ok)
             IN  [queries  |-> read.queries,
                  requests |-> before.requests \o << posted.request >>
                                    \o read.requests,
                  out      |-> IF read.out.kind = "return"
                               THEN Return(Get(read.out.value).meta.is_archived)
                               ELSE CatchKeyError(read.out, response_json,
                                                  "UnarchiveQueryResponse")]

\* def unarchive_query(self, query_id)
unarchive_query(qs, query_id, post_ok, get_ok, interfere) ==
    LET posted == post_action(qs, query_id, "unarchive", post_ok, interfere)
        response_json == posted.response_json
    IN  IF "query_id" \notin DOMAIN response_json
        THEN [queries  |-> posted.queries,
              requests |-> << posted.request >>,
              out      |-> DuneError(response_json, "UnarchiveQueryResponse")]
        ELSE LET read == get_query(posted.queries, response_json.query_id, get_ok)
             IN  [queries  |-> read.queries,
                  requests |-> << posted.request >> \o read.requests,
                  out      |-> IF read.out.kind = "return"
                               THEN Return(Get(read.out.value).meta.is_archived)
                               ELSE CatchKeyError(read.out, response_json,
                                                  "UnarchiveQueryResponse")]

\* make_private that reports a disagreeing read as a DuneError.
make_private_typed_error(qs, query_id, post_ok, get_ok, interfere) ==
    LET posted == post_action(qs, query_id, "private", post_ok, interfere)
        response_json == posted.response_json
    IN  IF "query_id" \notin DOMAIN response_json
        THEN [queries  |-> posted.queries,
              requests |-> << posted.request >>,
              out      |-> DuneError(response_json, "MakePrivateResponse")]
        ELSE LET read == get_query(posted.queries, response_json.query_id, get_ok)
             IN  [queries  |-> read.queries,
                  requests |-> << posted.request >> \o read.requests,
                  out      |-> IF read.out.kind = "return"
                               THEN IF Get(read.out.value).meta.is_private
                                    THEN ReturnNone
                                    ELSE DuneError(response_json,
                                                   "MakePrivateResponse")
                               ELSE CatchKeyError(read.out, response_json,
                                                  "MakePrivateResponse")]

\* def make_private(self, query_id)
make_private(qs, query_id, post_ok, get_ok, interfere) ==
    LET posted == post_action(qs, query_id, "private", post_ok, interfere)
        response_json == posted.response_json
    IN  IF "query_id" \notin DOMAIN response_json
        THEN [queries  |-> posted.queries,
              requests |-> << posted.request >>,
              out      |-> DuneError(response_json, "MakePrivateResponse")]
        ELSE LET read == get_query(posted.queries, response_json.query_id, get_ok)
             IN  [queries  |-> read.queries,
                  requests |-> << posted.request >> \o read.requests,
                  out      |-> IF read.out.kind = "return"
                               THEN \* assert <query>.meta.is_private
                                    IF Get(read.out.value).meta.is_private
                                    THEN ReturnNone
                                    ELSE Raise("AssertionError")
                               ELSE CatchKeyError(read.out, response_json,
                                                  "MakePrivateResponse")]

\* make_public that asserts the flag make_private asserts.
make_public_asserts_private(qs, query_id, post_ok, get_ok, interfere) ==
    LET posted == post_action(qs, query_id, "unprivate", post_ok, interfere)
        response_json == posted.response_json
    IN  IF "query_id" \notin DOMAIN response_json
        THEN [queries  |-> posted.queries,
              requests |-> << posted.request >>,
              out      |-> DuneError(response_json, "MakePublicResponse")]
        ELSE LET read == get_query(posted.queries, response_json.query_id, get_ok)
             IN  [queries  |-> read.queries,
                  requests |-> << posted.request >> \o read.requests,
                  out      |-> IF read.out.kind = "return"
                               THEN IF Get(read.out.value).meta.is_private
                                    THEN ReturnNone
                                    ELSE Raise("AssertionError")
                               ELSE CatchKeyError(read.out, response_json,
                                                  "MakePublicResponse")]

\* def make_public(self, query_id)
make_public(qs, query_id, post_ok, get_ok, interfere) ==
    LET posted == post_action(qs, query_id, "unprivate", post_ok, interfere)
        response_json == posted.response_json
    IN  IF "query_id" \notin DOMAIN response_json
        THEN [queries  |-> posted.queries,
              requests |-> << posted.request >>,
              out      |-> DuneError(response_json, "MakePublicResponse")]
        ELSE LET read == get_query(posted.queries, response_json.query_id, get_ok)
             IN  [queries  |-> read.queries,
                  requests |-> << posted.request >> \o read.requests,
                  out      |-> IF read.out.kind = "return"
                               THEN \* assert not <query>.meta.is_private
                                    IF ~Get(read.out.value).meta.is_private
                                    THEN ReturnNone
                                    ELSE Raise("AssertionError")
                               ELSE CatchKeyError(read.out, response_json,
                                                  "MakePublicResponse")]

\* ----------------------------------------------------------------- inputs
\* What the service does with the requests of one call: it serves them all,
\* fails the mutating request, fails the read, or serves both while another
\* user changes the query in between.
Scenarios == {"ok", "post_error", "get_error", "interfere"}

PostOk(s) == s # "post_error"
GetOk(s) == s # "get_error"
Interfere(s) == s = "interfere"

QueryIds == 1..MaxQueryId

\* Arguments of create_query.
CreateNames == {"test_create"}
CreateSqls == {""}
CreateParams == {None, Some(<< >>), Some(<< P1 >>)}

\* Arguments of update_query: no params, or an UpdateQueryParams in which
\* each field is None or a value (an empty one, but for the name).
UpdateParams ==
    {None} \cup
    {Some(t) : t \in [name        : {None, Some("renamed")},
                      query_sql   : {None, Some("")},
                      params      : {None, Some(<< >>)},
                      description : {None, Some("")},
                      tags        : {None, Some(<< >>)}]}

NoArgs == [none |-> TRUE]

\* The record of a call.
Call(op, query_id, args, s, r) ==
    [op |-> op, query_id |-> query_id, args |-> args,
     scenario |-> s,
     requests |-> r.requests, out |-> r.out]

\* The query the tests work on: it exists before the client is built.
ExistingQuery(is_private, is_archived) ==
    [name        |-> "Sample Query",
     query_sql   |-> "select 1",
     parameters  |-> << to_dict(P1) >>,
     description |-> "sample",
     tags        |-> << "test" >>,
     is_private  |-> is_private,
     is_archived |-> is_archived]

\* ---------------------------------------------------------------- actions
Init ==
    /\ \E is_private \in BOOLEAN, is_archived \in BOOLEAN :
            queries = << ExistingQuery(is_private, is_archived) >>
    /\ last = [op |-> "none", query_id |-> 0, args |-> NoArgs,
               scenario |-> "ok", requests |-> << >>, out |-> ReturnNone]
    /\ executions = << >>
    /\ cancelled = {}
    /\ fetch = [op |-> "none", id |-> 0, state |-> "none", success |-> FALSE]

CreateQuery ==
    \E name \in CreateNames, query_sql \in CreateSqls, params \in CreateParams,
       is_private \in BOOLEAN, s \in {"ok", "post_error", "get_error"} :
        /\ Len(queries) < MaxQueryId
        /\ LET r == create_query(queries, name, query_sql, params, is_private,
                                 PostOk(s), GetOk(s))
           IN  /\ queries' = r.queries
               /\ last' = Call("create_query", 0,
                               [name |-> name, query_sql |-> query_sql,
                                params |-> params, is_private |-> is_private],
                               s, r)
        /\ UNCHANGED <<executions, cancelled, fetch>>

GetQuery ==
    \E query_id \in QueryIds, s \in {"ok", "get_error"} :
        /\ LET r == get_query(queries, query_id, GetOk(s))
           IN  /\ queries' = r.queries
               /\ last' = Call("get_query", query_id, NoArgs, s, r)
        /\ UNCHANGED <<executions, cancelled, fetch>>

UpdateQuery ==
    \E query_id \in QueryIds, params \in UpdateParams,
       s \in {"ok", "post_error"} :
        /\ LET r == update_query(queries, query_id, params, PostOk(s))
           IN  /\ queries' = r.queries
               /\ last' = Call("update_query", query_id, params, s, r)
        /\ UNCHANGED <<executions, cancelled, fetch>>

ArchiveQuery ==
    \E query_id \in QueryIds, s \in Scenarios :
        /\ LET r == archive_query(queries, query_id,
                                  PostOk(s), GetOk(s), Interfere(s))
           IN  /\ queries' = r.queries
               /\ last' = Call("archive_query", query_id, NoArgs, s, r)
        /\ UNCHANGED <<executions, cancelled, fetch>>

UnarchiveQuery ==
    \E query_id \in QueryIds, s \in Scenarios :
        /\ LET r == unarchive_query(queries, query_id,
                                    PostOk(s), GetOk(s), Interfere(s))
           IN  /\ queries' = r.queries
               /\ last' = Call("unarchive_query", query_id, NoArgs, s, r)
        /\ UNCHANGED <<executions, cancelled, fetch>>

MakePrivate ==
    \E query_id \in QueryIds, s \in Scenarios :
        /\ LET r == make_private(queries, query_id,
                                 PostOk(s), GetOk(s), Interfere(s))
           IN  /\ queries' = r.queries
               /\ last' = Call("make_private", query_id, NoArgs, s, r)
        /\ UNCHANGED <<executions, cancelled, fetch>>

MakePublic ==
    \E query_id \in QueryIds, s \in Scenarios :
        /\ LET r == make_public(queries, query_id,
                                PostOk(s), GetOk(s), Interfere(s))
           IN  /\ queries' = r.queries
               /\ last' = Call("make_public", query_id, NoArgs, s, r)
        /\ UNCHANGED <<executions, cancelled, fetch>>

Next ==
    \/ CreateQuery
    \/ GetQuery
    \/ UpdateQuery
    \/ ArchiveQuery
    \/ UnarchiveQuery
    \/ MakePrivate
    \/ MakePublic

Spec == Init /\ [][Next]_vars

\* ------------------------------------------------------------- executions
\* The execution life cycle the service runs:
\*   submitted -> {pending, executing} -> {completed, cancelled, failed}.
Terminal == {"completed", "cancelled", "failed"}

\* The states the service can move an execution to on its own.
ServiceStep(state) ==
    CASE state = "pending"   -> {"executing"}
      [] state = "executing" -> {"completed", "failed"}
      [] OTHER               -> {}

\* A cancel request the service acknowledges without stopping the execution.
CancelStepIgnored(state) == state

\* The state of an execution after a cancel request.
CancelStep(state) == IF state \in Terminal THEN state ELSE "cancelled"

\* Whether a cancel request on an execution in this state reports success.
CancelSuccess(state) == state \notin Terminal

\* execute(query): a new execution, pending
Execute ==
    /\ Len(executions) < MaxExecutions
    /\ executions' = Append(executions, "pending")
    /\ fetch' = [op |-> "execute", id |-> Len(executions) + 1,
                 state |-> "pending", success |-> TRUE]
    /\ UNCHANGED <<queries, last, cancelled>>

\* The service works on an execution.
Progress ==
    \E id \in 1..Len(executions) :
        \E state \in ServiceStep(executions[id]) :
            /\ executions' = [executions EXCEPT ![id] = state]
            /\ UNCHANGED <<queries, last, cancelled, fetch>>

\* get_status(job_id): the state the service reports
GetStatus ==
    \E id \in 1..Len(executions) :
        /\ fetch' = [op |-> "get_status", id |-> id,
                     state |-> executions[id], success |-> TRUE]
        /\ UNCHANGED <<queries, last, executions, cancelled>>

\* get_result(job_id): the results, with the state they were fetched in
GetResult ==
    \E id \in 1..Len(executions) :
        /\ fetch' = [op |-> "get_result", id |-> id,
                     state |-> executions[id], success |-> TRUE]
        /\ UNCHANGED <<queries, last, executions, cancelled>>

\* cancel_execution(job_id): whether the service cancelled the execution
CancelExecution ==
    \E id \in 1..Len(executions) :
        /\ executions' = [executions EXCEPT ![id] = CancelStep(executions[id])]
        /\ cancelled' = IF CancelSuccess(executions[id])
                        THEN cancelled \cup {id} ELSE cancelled
        /\ fetch' = [op |-> "cancel_execution", id |-> id,
                     state |-> "none",
                     success |-> CancelSuccess(executions[id])]
        /\ UNCHANGED <<queries, last>>

ExecNext ==
    \/ Execute
    \/ Progress
    \/ GetStatus
    \/ GetResult
    \/ CancelExecution

ExecSpec == Init /\ [][ExecNext]_vars

\* ------------------------------------------------------------------ claims
\* Vocabulary of the properties below.

\* The name of the response type each method builds from its mutating
\* request's response.
ResponseClass(op) ==
    CASE op = "create_query"    -> "CreateQueryResponse"
      [] op = "update_query"    -> "UpdateQueryResponse"
      [] op = "archive_query"   -> "ArchiveQueryResponse"
      [] op = "unarchive_query" -> "UnarchiveQueryResponse"
      [] op = "make_private"    -> "MakePrivateResponse"
      [] op = "make_public"     -> "MakePublicResponse"

ActionOps == {"archive_query", "unarchive_query", "make_private", "make_public"}

\* The route of each method's mutating request.
MutatingRoute(op) ==
    CASE op = "create_query"    -> "/query/"
      [] op = "update_query"    -> "/query/{id}"
      [] op = "archive_query"   -> "/query/{id}/archive"
      [] op = "unarchive_query" -> "/query/{id}/unarchive"
      [] op = "make_private"    -> "/query/{id}/private"
      [] op = "make_public"     -> "/query/{id}/unprivate"

\* update_query was given no field: params omitted, or all five fields unset.
NoFieldsSupplied(params) ==
    \/ IsNone(params)
    \/ \A f \in UpdateQueryParamsFields : IsNone(Get(params)[f])

\* The body key an UpdateQueryParams field is sent under.
WireKey(f) == IF f = "params" THEN "parameters" ELSE f

\* The field an update body key comes from.
FieldOf(k) == IF k = "parameters" THEN "params" ELSE k

\* The body keys of the fields update_query was given.
SuppliedKeys(params) ==
    IF IsNone(params) THEN {}
    ELSE {WireKey(f) : f \in {g \in UpdateQueryParamsFields :
                                    ~IsNone(Get(params)[g])}}

\* The value update_query was given for a body key, in wire form.
SuppliedValue(params, k) ==
    IF k = "parameters"
    THEN to_dicts(Get(Get(params).params))
    ELSE Get(Get(params)[FieldOf(k)])

\* What a get_query of query id reads for a body key, in wire form, when the
\* service serves it.
ReadBack(qs, id, k) ==
    LET q == Get(get_query(qs, id, TRUE).out.value)
    IN  CASE k = "name"        -> q.base.name
          [] k = "query_sql"   -> q.sql
          [] k = "parameters"  -> to_dicts(q.base.params)
          [] k = "description" -> q.meta.description
          [] k = "tags"        -> q.meta.tags

UpdateKeys == {"name", "description", "tags", "query_sql", "parameters"}

\* A response that is not a full query object.
Malformed(response) == ~(QueryKeys \subseteq DOMAIN response)

\* The service served the call's requests, no other user interfered, and the
\* query the call names exists.
Faithful == last.scenario = "ok" /\ Found(queries, last.query_id)

\* C1: update_query with no fields supplied (params omitted, or all five
\* fields unset) sends no request, leaves the service's queries unchanged
\* and returns exactly the query id it was given.
C1_NoFieldsReturnsId ==
    [][(last'.op = "update_query" /\ NoFieldsSupplied(last'.args))
        => /\ last'.requests = << >>
           /\ queries' = queries
           /\ last'.out = Return(last'.query_id)]_vars

\* C2: update_query with some fields supplied sends one PATCH /query/{id}
\* whose body holds exactly the supplied fields; when the service serves it,
\* a supplied field (an empty one too) reads back as supplied on the next
\* get_query and an omitted field reads back as before.
C2_PatchCarriesSuppliedFields ==
    [][(last'.op = "update_query" /\ ~NoFieldsSupplied(last'.args))
        => /\ Len(last'.requests) = 1
           /\ LET patch == last'.requests[1]
                  id == last'.query_id
              IN  /\ patch.method = "PATCH"
                  /\ patch.route = "/query/{id}"
                  /\ patch.id = id
                  /\ DOMAIN patch.body = SuppliedKeys(last'.args)
                  /\ \A k \in DOMAIN patch.body :
                        patch.body[k] = SuppliedValue(last'.args, k)
                  /\ "query_id" \in DOMAIN patch.response
                        => \A k \in UpdateKeys :
                              ReadBack(queries', id, k) =
                                  IF k \in SuppliedKeys(last'.args)
                                  THEN SuppliedValue(last'.args, k)
                                  ELSE ReadBack(queries, id, k)]_vars

\* The call is one of the six mutating methods, update_query with at least
\* one field.
C3_Mutating ==
    \/ last.op \in {"create_query"} \cup ActionOps
    \/ last.op = "update_query" /\ ~NoFieldsSupplied(last.args)

\* C3: when the response to the mutating request of create_query,
\* update_query (with a field), archive_query, unarchive_query, make_private
\* or make_public lacks the query_id key, the call raises DuneError carrying
\* that response and the name of the response type, and sends nothing more.
C3_MissingIdRaisesDuneError ==
    C3_Mutating =>
        \* a service that answers the mutating request with an error payload
        \* is answered by the call with DuneError
        /\ last.scenario = "post_error"
              => /\ Len(last.requests) = 1
                 /\ last.requests[1].response = ErrorPayload
        /\ (/\ Len(last.requests) >= 1
            /\ "query_id" \notin DOMAIN last.requests[1].response)
              => /\ last.requests[1].method \in {"POST", "PATCH"}
                 /\ Len(last.requests) = 1
                 /\ last.out = DuneError(last.requests[1].response,
                                         ResponseClass(last.op))

\* C3, for the five methods that reach their mutating request.
C3_OtherMethods ==
    last.op \in {"create_query"} \cup ActionOps => C3_MissingIdRaisesDuneError

\* C4: create_query sends the creation POST and then a read by the id the
\* service returned; the object it returns carries that id, a positive
\* integer, and a later get_query of that id returns an object with the
\* same id.
C4_CreateReadsBackAssignedId ==
    last.op = "create_query" =>
        /\ Len(last.requests) >= 1
        /\ LET post == last.requests[1]
               payload_keys == IF IsNone(last.args.params)
                               THEN {"name", "query_sql", "is_private"}
                               ELSE {"name", "query_sql", "is_private",
                                     "parameters"}
           IN  /\ post.method = "POST" /\ post.route = "/query/"
               /\ DOMAIN post.body = payload_keys
               /\ post.body.name = last.args.name
               /\ post.body.query_sql = last.args.query_sql
               /\ post.body.is_private = last.args.is_private
               /\ "parameters" \in payload_keys
                     => post.body.parameters = to_dicts(Get(last.args.params))
               /\ "query_id" \in DOMAIN post.response
                     => /\ Len(last.requests) = 2
                        /\ last.requests[2].method = "GET"
                        /\ last.requests[2].route = "/query/{id}"
                        /\ last.requests[2].id = post.response.query_id
               /\ last.scenario = "ok" => last.out.kind = "return"
               /\ last.out.kind = "return"
                     => LET created == Get(last.out.value)
                            again == get_query(queries, created.base.query_id,
                                               TRUE).out
                        IN  /\ "query_id" \in DOMAIN post.response
                            /\ created.base.query_id = post.response.query_id
                            /\ created.base.query_id > 0
                            /\ again.kind = "return"
                            /\ Get(again.value).base.query_id
                                    = created.base.query_id

\* A query has been created and read back under the id the service gave it.
C4_Witness ==
    /\ last.op = "create_query"
    /\ last.out.kind = "return"
    /\ Get(last.out.value).base.query_id = 2
    /\ Len(queries) = 2

\* The archived flag of the query a call read back (its second request).
C5_Refetched == last.requests[2].response.is_archived

\* C5: on an existing query, from either archived state, archive_query
\* returns true and unarchive_query (so too the one that follows an
\* archive_query on the same id) returns false; each call posts its action
\* and returns the is_archived flag of the query as fetched after it.
C5_ArchiveThenUnarchive ==
    last.op \in {"archive_query", "unarchive_query"} =>
        /\ Len(last.requests) >= 1
        /\ last.requests[1].method = "POST"
        /\ last.requests[1].route = MutatingRoute(last.op)
        /\ last.requests[1].id = last.query_id
        /\ last.out.kind = "return"
              => /\ Len(last.requests) = 2
                 /\ last.requests[2].method = "GET"
                 /\ last.requests[2].id = last.query_id
                 /\ last.out = Return(C5_Refetched)
                 /\ C5_Refetched = queries[last.query_id].is_archived
        /\ Faithful
              => /\ last.out = Return(last.op = "archive_query")
                 /\ queries[last.query_id].is_archived
                        = (last.op = "archive_query")

\* unarchive_query has returned false for an existing query.
C5_Witness ==
    /\ last.op = "unarchive_query"
    /\ Faithful
    /\ last.out = Return(FALSE)
    /\ last.requests[1].response = [query_id |-> last.query_id]
    /\ ~queries[last.query_id].is_archived

\* The privacy flag make_private / make_public means to reach.
C6_Intended == last.op = "make_private"

\* The call read the query back and found the flag it meant to reach.
C6_RefetchedAsIntended ==
    /\ Len(last.requests) = 2
    /\ ~Malformed(last.requests[2].response)
    /\ last.requests[2].response.is_private = C6_Intended

\* C6: on an existing query, from either privacy state, make_private leaves
\* is_private reading back true and make_public leaves it reading back
\* false; each call returns normally (no value) exactly when the query
\* fetched after the action has the intended flag.
C6_PrivateThenPublic ==
    last.op \in {"make_private", "make_public"} =>
        /\ (last.out.kind = "return") <=> C6_RefetchedAsIntended
        /\ last.out.kind = "return"
              => /\ last.out = ReturnNone
                 /\ Get(get_query(queries, last.query_id, TRUE).out.value)
                        .meta.is_private = C6_Intended
        /\ Faithful => last.out = ReturnNone

\* make_public has returned for an existing query.
C6_Witness ==
    /\ last.op = "make_public"
    /\ Faithful
    /\ last.out = ReturnNone
    /\ ~queries[last.query_id].is_private

\* The reads (GET requests) of the last call.
Reads == {i \in 1..Len(last.requests) : last.requests[i].method = "GET"}

\* C7: get_query sends a single GET /query/{id}; a malformed response to a
\* read, in get_query itself or in the follow-up read of create_query,
\* archive_query, unarchive_query, make_private or make_public, makes the
\* call fail with DuneError: no other error, and no object returned.
C7_MalformedReadRaisesDuneError ==
    /\ last.op = "get_query"
          => /\ Len(last.requests) = 1
             /\ last.requests[1].method = "GET"
             /\ last.requests[1].route = "/query/{id}"
             /\ last.requests[1].id = last.query_id
    /\ \A i \in Reads :
          Malformed(last.requests[i].response)
              => /\ last.out.kind = "DuneError"
                 /\ IsNone(last.out.value)

\* get_query got an error payload and raised DuneError.
C7_Witness ==
    /\ last.op = "get_query"
    /\ Malformed(last.requests[1].response)
    /\ last.out.kind = "DuneError"

\* The query read back by make_private / make_public disagrees with the
\* requested transition.
C8_Disagrees ==
    /\ Len(last.requests) = 2
    /\ "query_id" \in DOMAIN last.requests[1].response
    /\ ~Malformed(last.requests[2].response)
    /\ last.requests[2].response.is_private # C6_Intended

\* C8 as stated: a disagreeing read makes make_private / make_public fail
\* with an assertion failure, and they raise DuneError only when the action
\* response lacks the id key.
C8_DuneErrorOnlyOnMissingId ==
    last.op \in {"make_private", "make_public"} =>
        /\ C8_Disagrees => last.out = Raise("AssertionError")
        /\ last.out.kind = "DuneError"
              => "query_id" \notin DOMAIN last.requests[1].response

\* C8, amended: a disagreeing read makes make_private / make_public fail
\* with an assertion failure; they raise DuneError exactly when the action
\* response lacks the id key or the response to the follow-up read is
\* malformed.
C8_AssertionOnDisagreement ==
    last.op \in {"make_private", "make_public"} =>
        /\ C8_Disagrees => last.out = Raise("AssertionError")
        /\ (last.out.kind = "AssertionError") => C8_Disagrees
        /\ (last.out.kind = "DuneError")
              <=> \/ "query_id" \notin DOMAIN last.requests[1].response
                  \/ /\ Len(last.requests) = 2
                     /\ Malformed(last.requests[2].response)

\* make_private read back a query that is not private.
C8_Witness ==
    /\ last.op = "make_private"
    /\ C8_Disagrees
    /\ last.out.kind = "AssertionError"

\* C9: once cancel_execution has reported success for an execution, every
\* later status or result fetch of it reports cancelled, and the service
\* keeps it cancelled.
C9_CancelledIsTerminal ==
    \A id \in cancelled :
        /\ executions[id] = "cancelled"
        /\ (fetch.id = id /\ fetch.op \in {"get_status", "get_result"})
              => fetch.state = "cancelled"

\* A result fetch after a successful cancel.
C9_Witness ==
    /\ fetch.op = "get_result"
    /\ fetch.id \in cancelled
    /\ fetch.state = "cancelled"

\* C10: a call sends at most two requests, in order: get_query one GET;
\* update_query at most one PATCH and no GET; the other methods one
\* mutating POST and then at most one GET, addressed to the query id of the
\* POST's response.
C10_AtMostTwoRoundTrips ==
    /\ Len(last.requests) <= 2
    /\ last.op = "get_query"
          => /\ Len(last.requests) = 1
             /\ last.requests[1].method = "GET"
    /\ last.op = "update_query"
          => /\ Len(last.requests) <= 1
             /\ \A i \in 1..Len(last.requests) :
                    last.requests[i].method = "PATCH"
    /\ last.op \in {"create_query"} \cup ActionOps
          => /\ Len(last.requests) >= 1
             /\ last.requests[1].method = "POST"
             /\ last.requests[1].route = MutatingRoute(last.op)
             /\ Len(last.requests) = 2
                   => /\ last.requests[2].method = "GET"
                      /\ "query_id" \in DOMAIN last.requests[1].response
                      /\ last.requests[2].id
                            = last.requests[1].response.query_id

\* A call that made both round trips.
C10_Witness ==
    /\ last.op = "archive_query"
    /\ Len(last.requests) = 2
    /\ last.requests[1].method = "POST"
    /\ last.requests[2].method = "GET"

====
